---- MODULE Spec2Model ----
(***************************************************************************)
(* Model of the MUSE ECG extractor:                                        *)
(*   MUSE_ECG_Extractor.py            decode_waveform, get_lead_data       *)
(*   MUSE_ECG_Extractor_KW_metadata_v2.py                                  *)
(*                                    clean_row_for_tsv,                   *)
(*                                    write_metadata_batch                 *)
(*                                                                         *)
(* Text is a sequence of one-character strings.  A numpy float is kept in  *)
(* fixed point with one binary fractional digit: the float x is the        *)
(* integer 2x, so that int16 * scale and the division by two of the lead   *)
(* derivation are exact.                                                   *)
(***************************************************************************)
EXTENDS Integers, Sequences, FiniteSets, TLC

VARIABLES
    b64_data,    \* decode_waveform: argument text
    scale,       \* decode_waveform: argument scale (fixed point)
    decoded,     \* decode_waveform: what the call produced
    dpc,         \* decode_waveform: "call" | "returned"
    leads,       \* get_lead_data: the dict under construction
    lead_id,     \* get_lead_data: local of the LeadData loop
    waveform_type, \* get_lead_data: local of the Waveform loop
    lpc,         \* get_lead_data: "parse" | "waveforms" | "leaddata"
                 \*                | "returned" | "raised"
    raised_at,   \* get_lead_data: the expression that raised, or "none"
    stored,      \* get_lead_data: keys assigned from a LeadData node
    failed,      \* get_lead_data: keys whose latest blob failed to decode
    type_text,   \* get_lead_data: WaveformType text of the current Waveform
    other_only,  \* get_lead_data: every Waveform so far has a type that
                 \*                is not "rhythm" in any letter case
    nwaveform,   \* get_lead_data: Waveform elements visited
    nleaddata,   \* get_lead_data: LeadData elements visited
    row_dict,    \* clean_row_for_tsv: argument
    cleaned,     \* clean_row_for_tsv: result
    cpc,         \* clean_row_for_tsv: "call" | "returned"
    out_tsv,     \* write_metadata_batch: the output file
    append,      \* write_metadata_batch: argument
    n,           \* write_metadata_batch: rows written by this run
    log,         \* write_metadata_batch: paths of the [WARN] lines printed
    bpc,         \* write_metadata_batch: "main" | "loop" | "done"
    outcomes,    \* write_metadata_batch: per document of this run, its path
                 \*                       and whether extract_xml returned
    run_start,   \* write_metadata_batch: lines in the file when the loop
                 \*                       of this run began
    runs,        \* runs of main() so far
    platform,    \* iter_xml_files: "posix" | "nt", the pathlib flavour
    path,        \* iter_xml_files: local of the loop, what the input names
    yielded,     \* iter_xml_files: the paths yielded for this input
    ninputs,     \* iter_xml_files: inputs visited
    ipc          \* iter_xml_files: "loop" | "done"

dvars == <<b64_data, scale, decoded, dpc>>
lvars == <<leads, lead_id, waveform_type, lpc, raised_at, stored, failed,
           type_text, other_only, nwaveform, nleaddata>>
cvars == <<row_dict, cleaned, cpc>>
bvars == <<out_tsv, append, n, log, bpc, outcomes, run_start, runs>>
ivars == <<platform, path, yielded, ninputs, ipc>>
vars == <<dvars, lvars, cvars, bvars, ivars>>

(***************************************************************************)
(* Bounds of the explored inputs.                                          *)
(***************************************************************************)
MaxTextLen == 5      \* longest arbitrary blob text
MaxQuads == 2        \* longest well-formed blob text, in groups of four
MaxWaveforms == 2    \* Waveform elements of a document
MaxLeadData == 3     \* LeadData elements of a document
MaxStrLen == 4       \* longest string value of a metadata row
MaxDocs == 2         \* documents of one batch run
MaxRuns == 2         \* batch runs on the same output path
MaxInputs == 2       \* input paths given to iter_xml_files
MaxEntries == 2      \* files in one directory

(***************************************************************************)
(* Numbers and text.                                                       *)
(***************************************************************************)
Float(i) == 2 * i                      \* the float with integer value i
Half(x) == x \div 2                    \* x / 2, exact on even x

SeqsUpTo(S, len) == UNION {[1..k -> S] : k \in 0..len}

NonAscii == "U+00E9"                   \* a character outside ASCII

(***************************************************************************)
(* binascii.a2b_base64 in its default, non-strict mode, reached through    *)
(* base64.b64decode(b64_data).                                             *)
(***************************************************************************)
B64Alphabet ==
    << "A","B","C","D","E","F","G","H","I","J","K","L","M","N","O","P",
       "Q","R","S","T","U","V","W","X","Y","Z","a","b","c","d","e","f",
       "g","h","i","j","k","l","m","n","o","p","q","r","s","t","u","v",
       "w","x","y","z","0","1","2","3","4","5","6","7","8","9","+","/" >>

B64Chars == {B64Alphabet[i] : i \in 1..64}

table_a2b_base64(c) == (CHOOSE i \in 1..64 : B64Alphabet[i] = c) - 1

BinOk(bytes) == [ok |-> TRUE, bytes |-> bytes]
BinErr == [ok |-> FALSE, bytes |-> <<>>]

RECURSIVE a2b_loop(_, _, _, _, _, _)
a2b_loop(s, i, quad_pos, leftchar, pads, bin) ==
    IF i > Len(s)
    THEN IF quad_pos # 0 THEN BinErr ELSE BinOk(bin)
    ELSE LET c == s[i] IN
         IF c = "="
         THEN IF quad_pos >= 2 /\ quad_pos + pads + 1 >= 4
              THEN BinOk(bin)
              ELSE a2b_loop(s, i + 1, quad_pos, leftchar,
                            IF quad_pos >= 2 THEN pads + 1 ELSE pads, bin)
         ELSE IF c \notin B64Chars
         THEN a2b_loop(s, i + 1, quad_pos, leftchar, pads, bin)
         ELSE LET v == table_a2b_base64(c) IN
              CASE quad_pos = 0 ->
                     a2b_loop(s, i + 1, 1, v, 0, bin)
                [] quad_pos = 1 ->
                     a2b_loop(s, i + 1, 2, v % 16, 0,
                              Append(bin, leftchar * 4 + v \div 16))
                [] quad_pos = 2 ->
                     a2b_loop(s, i + 1, 3, v % 4, 0,
                              Append(bin, leftchar * 16 + v \div 4))
                [] quad_pos = 3 ->
                     a2b_loop(s, i + 1, 0, 0, 0,
                              Append(bin, leftchar * 64 + v))

b64decode(s) ==
    IF \E i \in 1..Len(s) : s[i] = NonAscii
    THEN BinErr
    ELSE a2b_loop(s, 1, 0, 0, 0, <<>>)

(***************************************************************************)
(* struct.unpack('<' + 'h' * num_samples, binary_data[:num_samples*2])     *)
(***************************************************************************)
Int16(u) == IF u >= 32768 THEN u - 65536 ELSE u

UnpackBE(bytes, num_samples) ==
    [k \in 1..num_samples |-> Int16(bytes[2 * k - 1] * 256 + bytes[2 * k])]

Unpack(bytes, num_samples) ==
    [k \in 1..num_samples |-> Int16(bytes[2 * k - 1] + 256 * bytes[2 * k])]

(***************************************************************************)
(* Values a call of decode_waveform produces: a one-dimensional float      *)
(* array, or the "[Error decoding waveform: ...]" string.                  *)
(***************************************************************************)
NdArray(v) == [kind |-> "ndarray", v |-> v]
ErrorStr == [kind |-> "str", v |-> <<>>]

decode_waveform(data, sc) ==
    LET binary_data == b64decode(data) IN
    IF ~binary_data.ok
    THEN ErrorStr
    ELSE LET num_samples == Len(binary_data.bytes) \div 2
             samples == Unpack(binary_data.bytes, num_samples)
         IN NdArray([k \in 1..num_samples |-> samples[k] * sc])

(***************************************************************************)
(* Inputs of decode_waveform.                                              *)
(***************************************************************************)
TextChars == {"A", "Q", "/", "=", "!", NonAscii}
QuadChars == {"Q", "/"}

FullQuads == [1..4 -> QuadChars]
LastQuads ==
    FullQuads
    \cup {q \o <<"=">> : q \in [1..3 -> QuadChars]}
    \cup {q \o <<"=", "=">> : q \in [1..2 -> QuadChars]}

RECURSIVE QuadTexts(_)
QuadTexts(quads) ==
    IF quads = 0 THEN {<<>>}
    ELSE IF quads = 1 THEN LastQuads
    ELSE {q \o t : q \in FullQuads, t \in QuadTexts(quads - 1)}

ExampleText == <<"A", "Q", "D", "/", "/", "w", "=", "=">>   \* 01 00 FF FF

Texts ==
    SeqsUpTo(TextChars, MaxTextLen)
    \cup UNION {QuadTexts(quads) : quads \in 0..MaxQuads}
    \cup {ExampleText}

Scales == {Float(2), Float(-1), Float(0) + 1}    \* 2.0, -1.0, 0.5

DecodeInit ==
    /\ b64_data \in Texts
    /\ scale \in Scales
    /\ decoded = ErrorStr
    /\ dpc = "call"

DecodeIdle ==
    /\ b64_data = <<>>
    /\ scale = Float(1)
    /\ decoded = ErrorStr
    /\ dpc = "idle"

DecodeCall ==
    /\ dpc = "call"
    /\ decoded' = decode_waveform(b64_data, scale)
    /\ dpc' = "returned"
    /\ UNCHANGED <<b64_data, scale>>
    /\ UNCHANGED <<lvars, cvars, bvars, ivars>>

DecodeNext == DecodeCall

(***************************************************************************)
(* str.strip, str.upper, str.lower and float() on text.                    *)
(***************************************************************************)
Whitespace == {" ", "\t", "\n", "\r"}

ascii_uppercase ==
    << "A","B","C","D","E","F","G","H","I","J","K","L","M",
       "N","O","P","Q","R","S","T","U","V","W","X","Y","Z" >>
ascii_lowercase ==
    << "a","b","c","d","e","f","g","h","i","j","k","l","m",
       "n","o","p","q","r","s","t","u","v","w","x","y","z" >>

UpperChar(c) ==
    IF \E i \in 1..26 : ascii_lowercase[i] = c
    THEN ascii_uppercase[CHOOSE i \in 1..26 : ascii_lowercase[i] = c]
    ELSE c

LowerChar(c) ==
    IF \E i \in 1..26 : ascii_uppercase[i] = c
    THEN ascii_lowercase[CHOOSE i \in 1..26 : ascii_uppercase[i] = c]
    ELSE c

upper(s) == [i \in 1..Len(s) |-> UpperChar(s[i])]
lower(s) == [i \in 1..Len(s) |-> LowerChar(s[i])]

RECURSIVE lstrip(_)
lstrip(s) ==
    IF s # <<>> /\ Head(s) \in Whitespace THEN lstrip(Tail(s)) ELSE s

RECURSIVE rstrip(_)
rstrip(s) ==
    IF s # <<>> /\ s[Len(s)] \in Whitespace
    THEN rstrip(SubSeq(s, 1, Len(s) - 1))
    ELSE s

strip(s) == rstrip(lstrip(s))

\* the Python string a text spells
RECURSIVE Str(_)
Str(s) == IF s = <<>> THEN "" ELSE Head(s) \o Str(Tail(s))

Digits == <<"0", "1", "2", "3", "4", "5", "6", "7", "8", "9">>
IsDigit(c) == \E i \in 1..10 : Digits[i] = c
DigitValue(c) == (CHOOSE i \in 1..10 : Digits[i] = c) - 1

RECURSIVE DecimalValue(_)
DecimalValue(s) ==
    IF s = <<>> THEN 0
    ELSE 10 * DecimalValue(SubSeq(s, 1, Len(s) - 1)) + DigitValue(s[Len(s)])

\* float(text) on decimal literals of integer value: [sign] digits [. zeros];
\* any other text the model draws is not a number and raises ValueError
float(s) ==
    LET t == strip(s)
        signed == t # <<>> /\ Head(t) \in {"-", "+"}
        u == IF signed THEN Tail(t) ELSE t
        dot == IF \E i \in 1..Len(u) : u[i] = "."
               THEN CHOOSE i \in 1..Len(u) :
                        u[i] = "." /\ \A j \in 1..(i - 1) : u[j] # "."
               ELSE Len(u) + 1
        int == SubSeq(u, 1, dot - 1)
        frac == SubSeq(u, dot + 1, Len(u))
    IN IF /\ int # <<>>
          /\ \A i \in 1..Len(int) : IsDigit(int[i])
          /\ \A i \in 1..Len(frac) : frac[i] = "0"
       THEN [ok |-> TRUE,
             val |-> IF signed /\ Head(t) = "-"
                     THEN Float(0 - DecimalValue(int))
                     ELSE Float(DecimalValue(int))]
       ELSE [ok |-> FALSE, val |-> 0]

(***************************************************************************)
(* numpy: np.array(decoded) and the elementwise arithmetic of the          *)
(* derivation.  A value is a one-dimensional float array, a zero-          *)
(* dimensional string array (np.array of the error string), or the         *)
(* exception the operation raised.                                         *)
(***************************************************************************)
StrArray == [kind |-> "strarray", v |-> <<>>]
NpRaise == [kind |-> "raise", v |-> <<>>]

np_array(x) == IF x.kind = "str" THEN StrArray ELSE x

Broadcast(a, b) == Len(a.v) = Len(b.v) \/ Len(a.v) = 1 \/ Len(b.v) = 1
BroadcastLen(a, b) == IF Len(a.v) = 1 THEN Len(b.v) ELSE Len(a.v)
At(a, k) == IF Len(a.v) = 1 THEN a.v[1] ELSE a.v[k]

\* a ufunc on two operands raises on a string array (no loop for the
\* types) and on shapes that do not broadcast
BinRaises(a, b) ==
    a.kind # "ndarray" \/ b.kind # "ndarray" \/ ~Broadcast(a, b)

np_add(a, b) ==
    IF BinRaises(a, b) THEN NpRaise
    ELSE NdArray([k \in 1..BroadcastLen(a, b) |-> At(a, k) + At(b, k)])

np_sub(a, b) ==
    IF BinRaises(a, b) THEN NpRaise
    ELSE NdArray([k \in 1..BroadcastLen(a, b) |-> At(a, k) - At(b, k)])

np_neg(a) ==
    IF a.kind # "ndarray" THEN NpRaise
    ELSE NdArray([k \in 1..Len(a.v) |-> 0 - a.v[k]])

np_div2(a) ==
    IF a.kind # "ndarray" THEN NpRaise
    ELSE NdArray([k \in 1..Len(a.v) |-> Half(a.v[k])])

(***************************************************************************)
(* get_lead_data                                                           *)
(***************************************************************************)
LeadNames ==
    {"I", "II", "III", "aVR", "aVL", "aVF",
     "V1", "V2", "V3", "V4", "V5", "V6"}

EmptyArray == NdArray(<<>>)

\* an element looked up with find(): absent (None), present without text
\* (text is None), or present with text
Absent == [elem |-> "absent", text |-> <<>>]
NoText == [elem |-> "notext", text |-> <<>>]
Text(t) == [elem |-> "text", text |-> t]

WaveformTypes ==
    { Absent, NoText,
      Text(<<"r","h","y","t","h","m">>),
      Text(<<"R","h","y","t","h","m">>),
      Text(<<"R","H","Y","T","H","M">>),
      Text(<<"M","e","d","i","a","n">>),
      Text(<<" ","r","h","y","t","h","m">>) }

LeadIDs ==
    { Absent, NoText,
      Text(<<"I">>),
      Text(<<" ","i","i","\n">>),
      Text(<<"v","1">>),
      Text(<<"X","9">>),
      Text(<<"a","V","R">>) }

WaveFormDatas ==
    { Absent, NoText,
      Text(<<"A","Q","A","=">>),                    \* 01 00
      Text(<<"\n">> \o ExampleText \o <<"\n">>),    \* 01 00 FF FF
      Text(<<"A">>) }                               \* not base64

UnitsPerBits ==
    { Absent, NoText,
      Text(<<" ","-","2",".","0">>),
      Text(<<"4",".","8","8","u","V">>) }

RhythmText == <<"r","h","y","t","h","m">>

SkipNone(type) == FALSE

\* line 137: the Waveform is skipped unless its lowered type is 'rhythm'
Skip(type) == type # RhythmText

StoreAny(d, id) == TRUE

\* line 148: lead_id in leads.keys()
Known(d, id) == id \in DOMAIN d

\* line 154: leads[lead_id] = value, on a dict
SetItem(d, id, value) ==
    [k \in DOMAIN d \cup {id} |-> IF k = id THEN value ELSE d[k]]

DeriveSwapped(d) ==
    [III |-> np_sub(d["I"], d["II"]),
     aVR |-> np_div2(np_neg(np_add(d["I"], d["II"]))),
     aVL |-> np_sub(d["I"], np_div2(d["II"])),
     aVF |-> np_sub(d["II"], np_div2(d["I"]))]

\* lines 159-162, each right-hand side
Derive(d) ==
    [III |-> np_sub(d["II"], d["I"]),
     aVR |-> np_div2(np_neg(np_add(d["I"], d["II"]))),
     aVL |-> np_sub(d["I"], np_div2(d["II"])),
     aVF |-> np_sub(d["II"], np_div2(d["I"]))]

LeadsInit ==
    /\ leads = <<>>
    /\ lead_id = ""
    /\ waveform_type = <<>>
    /\ lpc = "parse"
    /\ raised_at = "none"
    /\ stored = {}
    /\ failed = {}
    /\ type_text = <<>>
    /\ other_only = TRUE
    /\ nwaveform = 0
    /\ nleaddata = 0

LeadsIdle ==
    /\ leads = <<>>
    /\ lead_id = ""
    /\ waveform_type = <<>>
    /\ lpc = "idle"
    /\ raised_at = "none"
    /\ stored = {}
    /\ failed = {}
    /\ type_text = <<>>
    /\ other_only = TRUE
    /\ nwaveform = 0
    /\ nleaddata = 0

Raise(at) ==
    /\ lpc' = "raised"
    /\ raised_at' = at

\* lines 118-134: etree.parse raises on a document that is not XML,
\* otherwise the dict starts with the twelve leads empty
Parse(wellformed) ==
    /\ lpc = "parse"
    /\ IF wellformed
       THEN /\ leads' = [k \in LeadNames |-> EmptyArray]
            /\ lpc' = "waveforms"
            /\ UNCHANGED raised_at
       ELSE /\ Raise("parse")
            /\ UNCHANGED leads
    /\ UNCHANGED <<lead_id, waveform_type, stored, failed, type_text,
                   other_only, nwaveform, nleaddata>>
    /\ UNCHANGED <<dvars, cvars, bvars, ivars>>

\* case-insensitive equality with "rhythm"
IsRhythmCI(t) ==
    /\ Len(t) = 6
    /\ t[1] \in {"r", "R"} /\ t[2] \in {"h", "H"} /\ t[3] \in {"y", "Y"}
    /\ t[4] \in {"t", "T"} /\ t[5] \in {"h", "H"} /\ t[6] \in {"m", "M"}

\* lines 135-139: the next Waveform element of the document
NextWaveform(type_elem) ==
    /\ lpc \in {"waveforms", "leaddata"}
    /\ nwaveform < MaxWaveforms
    /\ nwaveform' = nwaveform + 1
    /\ other_only' = (/\ other_only
                      /\ type_elem.elem = "text"
                      /\ ~IsRhythmCI(type_elem.text))
    /\ IF type_elem.elem # "text"
       THEN /\ Raise("WaveformType")
            /\ UNCHANGED <<waveform_type, type_text>>
       ELSE /\ type_text' = type_elem.text
            /\ waveform_type' = lower(type_elem.text)
            /\ lpc' = IF Skip(waveform_type') THEN "waveforms" ELSE "leaddata"
            /\ UNCHANGED raised_at
    /\ UNCHANGED <<leads, lead_id, stored, failed, nleaddata>>
    /\ UNCHANGED <<dvars, cvars, bvars, ivars>>

\* lines 141-157: the next LeadData element of the current Waveform
LeadData(lead_id_elem, waveform_elem, scale_elem) ==
    /\ lpc = "leaddata"
    /\ nleaddata < MaxLeadData
    /\ nleaddata' = nleaddata + 1
    /\ UNCHANGED <<waveform_type, type_text, other_only, nwaveform>>
    /\ UNCHANGED <<dvars, cvars, bvars, ivars>>
    /\ IF lead_id_elem.elem = "notext"
       THEN /\ Raise("LeadID")
            /\ UNCHANGED <<leads, lead_id, stored, failed>>
       ELSE
       /\ lead_id' = IF lead_id_elem.elem = "text"
                     THEN Str(upper(strip(lead_id_elem.text)))
                     ELSE "[Unknown LeadID]"
       /\ IF waveform_elem.elem = "notext"
          THEN /\ Raise("WaveFormData")
               /\ UNCHANGED <<leads, stored, failed>>
          ELSE
          LET waveform_text == IF waveform_elem.elem = "text"
                               THEN strip(waveform_elem.text)
                               ELSE <<>>
          IN
          IF ~Known(leads, lead_id')
          THEN UNCHANGED <<leads, stored, failed, lpc, raised_at>>
          ELSE IF scale_elem.elem = "notext"
                  \/ (scale_elem.elem = "text" /\ ~float(scale_elem.text).ok)
          THEN /\ Raise("LeadAmplitudeUnitsPerBit")
               /\ UNCHANGED <<leads, stored, failed>>
          ELSE
          LET sc == IF scale_elem.elem = "text"
                    THEN float(scale_elem.text).val
                    ELSE Float(1)
              decoded_ == decode_waveform(waveform_text, sc)
          IN /\ leads' = SetItem(leads, lead_id', np_array(decoded_))
             /\ stored' = stored \cup {lead_id'}
             /\ failed' = IF decoded_.kind = "str"
                          THEN failed \cup {lead_id'}
                          ELSE failed \ {lead_id'}
             /\ UNCHANGED <<lpc, raised_at>>

\* lines 159-164: both loops are over; derive the four leads and return
Return ==
    /\ lpc \in {"waveforms", "leaddata"}
    /\ LET d == Derive(leads) IN
       IF \E k \in DOMAIN d : d[k].kind = "raise"
       THEN /\ Raise("derive")
            /\ UNCHANGED leads
       ELSE /\ leads' = [k \in DOMAIN leads |->
                            IF k \in DOMAIN d THEN d[k] ELSE leads[k]]
            /\ lpc' = "returned"
            /\ UNCHANGED raised_at
    /\ UNCHANGED <<lead_id, waveform_type, stored, failed, type_text,
                   other_only, nwaveform, nleaddata>>
    /\ UNCHANGED <<dvars, cvars, bvars, ivars>>

LeadsNext ==
    \/ \E wellformed \in BOOLEAN : Parse(wellformed)
    \/ \E type_elem \in WaveformTypes : NextWaveform(type_elem)
    \/ \E lead_id_elem \in LeadIDs, waveform_elem \in WaveFormDatas,
          scale_elem \in UnitsPerBits :
          LeadData(lead_id_elem, waveform_elem, scale_elem)
    \/ Return

(***************************************************************************)
(* Python values of a metadata row: str, int or None.                      *)
(***************************************************************************)
PyStr(s) == [t |-> "str", v |-> s]
PyInt(i) == [t |-> "int", v |-> <<i>>]
PyNone == [t |-> "None", v |-> <<>>]

CR == "\r"
LF == "\n"

\* str.replace(old, new), old not empty
RECURSIVE replace(_, _, _)
replace(s, old, new) ==
    IF Len(s) < Len(old) THEN s
    ELSE IF SubSeq(s, 1, Len(old)) = old
    THEN new \o replace(SubSeq(s, Len(old) + 1, Len(s)), old, new)
    ELSE <<Head(s)>> \o replace(Tail(s), old, new)

FIELDNAMES ==
    << "file_path", "patient_id", "patient_age", "patient_gender",
       "patient_race", "priority", "location", "ecg_date",
       "acquisition_software_version", "analysis_software_version",
       "overread_lastname", "overread_firstname", "admit_diagnosis",
       "diagnosis_statement", "original_diagnosis",
       "VentricularRate", "AtrialRate", "PRInterval", "QRSDuration",
       "QTInterval", "QTCorrected", "PAxis", "RAxis", "TAxis", "QRSCount",
       "Original_VentricularRate", "Original_AtrialRate",
       "Original_PRInterval", "Original_QRSDuration",
       "Original_QTInterval", "Original_QTCorrected", "Original_PAxis",
       "Original_RAxis", "Original_TAxis", "Original_QRSCount" >>

FieldSet == {FIELDNAMES[i] : i \in 1..Len(FIELDNAMES)}

\* row_dict.get(k, None)
Get(d, k) == IF k \in DOMAIN d THEN d[k] ELSE PyNone

CleanStrNoPair(v) ==
    replace(replace(v, <<CR>>, <<LF>>), <<LF>>, <<"\\", "n">>)

\* line 152
CleanStr(v) ==
    replace(replace(replace(v, <<CR, LF>>, <<LF>>), <<CR>>, <<LF>>),
            <<LF>>, <<"\\", "n">>)

\* lines 143-155
clean_row_for_tsv(d) ==
    [k \in FieldSet |->
        LET v == Get(d, k) IN
        IF v.t = "str" THEN PyStr(CleanStr(v.v)) ELSE v]

(***************************************************************************)
(* clean_row_for_tsv on its own.                                           *)
(***************************************************************************)
StrChars == {CR, LF, "a", "\\"}

RowDicts ==
    { [k \in keys |->
          CASE k = "diagnosis_statement" -> PyStr(s)
            [] k = "patient_age" -> age
            [] OTHER -> PyStr(<<"x", LF>>)]
      : s \in SeqsUpTo(StrChars, MaxStrLen),
        age \in {PyInt(63), PyNone},
        keys \in { {"diagnosis_statement"},
                   {"diagnosis_statement", "patient_age"},
                   {"diagnosis_statement", "patient_age", "leads"} } }

CleanInit ==
    /\ row_dict \in RowDicts
    /\ cleaned = <<>>
    /\ cpc = "call"

CleanIdle ==
    /\ row_dict = <<>>
    /\ cleaned = <<>>
    /\ cpc = "idle"

CleanCall ==
    /\ cpc = "call"
    /\ cleaned' = clean_row_for_tsv(row_dict)
    /\ cpc' = "returned"
    /\ UNCHANGED row_dict
    /\ UNCHANGED <<dvars, lvars, bvars, ivars>>

CleanNext == CleanCall

(***************************************************************************)
(* extract_xml of MUSE_ECG_Extractor_KW_metadata_v2.py.  A document is     *)
(* its well-formedness, its PatientAge element and the DiagnosisStatement  *)
(* elements under Diagnosis and OriginalDiagnosis; the other scalar        *)
(* elements are taken absent, which gives their defaults.                  *)
(***************************************************************************)
Unknown == <<"U","n","k","n","o","w","n">>
ENDSLINE == <<"E","N","D","S","L","I","N","E">>

IntFields ==
    {FIELDNAMES[i] : i \in {3} \cup 16..35}

\* lines 22-24
get_int_or_none(e) ==
    IF e.elem = "text" /\ strip(e.text) # <<>>
       /\ \A i \in 1..Len(strip(e.text)) : IsDigit(strip(e.text)[i])
    THEN PyInt(DecimalValue(strip(e.text)))
    ELSE PyNone

\* lines 68-75 (and 77-84): [ok, text] after the statements, ok FALSE when
\* StmtText is missing or has no text
RECURSIVE Statements(_, _)
Statements(stmts, acc) ==
    IF stmts = <<>> THEN [ok |-> TRUE, text |-> acc]
    ELSE LET st == Head(stmts) IN
         IF st.StmtText.elem # "text" THEN [ok |-> FALSE, text |-> acc]
         ELSE LET line == acc \o strip(st.StmtText.text) \o <<" ">>
              IN Statements(Tail(stmts),
                    IF st.StmtFlag.elem = "text"
                       /\ strip(st.StmtFlag.text) = ENDSLINE
                    THEN line \o <<LF>>
                    ELSE line)

\* lines 87-88
StripOrNone(text) == IF text # <<>> THEN PyStr(strip(text)) ELSE PyNone

\* lines 10-90: [ok, ECG]
extract_xml(filename, doc) ==
    LET diag == Statements(doc.Diagnosis, <<>>)
        orig == Statements(doc.OriginalDiagnosis, <<>>)
    IN IF ~doc.wellformed \/ ~diag.ok \/ ~orig.ok
       THEN [ok |-> FALSE, ECG |-> <<>>]
       ELSE [ok |-> TRUE,
             ECG |-> [k \in FieldSet |->
                CASE k = "file_path" -> PyStr(filename)
                  [] k = "patient_age" -> get_int_or_none(doc.PatientAge)
                  [] k = "diagnosis_statement" -> StripOrNone(diag.text)
                  [] k = "original_diagnosis" -> StripOrNone(orig.text)
                  [] k \in IntFields \ {"patient_age"} -> PyNone
                  [] OTHER -> PyStr(Unknown)]]

(***************************************************************************)
(* write_metadata_batch, called by main().                                 *)
(***************************************************************************)
Stmt(text, flag) == [StmtText |-> text, StmtFlag |-> flag]

Doc(wellformed, age, diagnosis, original) ==
    [wellformed |-> wellformed, PatientAge |-> age,
     Diagnosis |-> diagnosis, OriginalDiagnosis |-> original]

Docs ==
    { \* a full document: two statements, the first ends its line
      Doc(TRUE, Text(<<"6", "3">>),
          <<Stmt(Text(<<"a", CR>>), Text(ENDSLINE)),
            Stmt(Text(<<" ", "b">>), Absent)>>,
          <<Stmt(Text(<<"c">>), NoText)>>),
      \* a document without age and diagnosis
      Doc(TRUE, Absent, <<>>, <<>>),
      \* a file that is not XML
      Doc(FALSE, Absent, <<>>, <<>>),
      \* a DiagnosisStatement without StmtText
      Doc(TRUE, Absent, <<Stmt(Text(<<"a">>), Absent), Stmt(Absent, Absent)>>,
          <<>>),
      \* a StmtText without text under OriginalDiagnosis
      Doc(TRUE, Absent, <<>>, <<Stmt(NoText, Absent)>>) }

\* the path of the i-th document of a run
Path(i) == <<"f", Digits[i + 1]>>

HeaderLine == [kind |-> "header", fields |-> <<>>]

\* csv.DictWriter.writerow: the values in FIELDNAMES order
RowLine(d) ==
    [kind |-> "row", fields |-> [i \in 1..Len(FIELDNAMES) |-> d[FIELDNAMES[i]]]]

HeaderAlways(append_, file_exists) == TRUE

\* line 177
HeaderNeeded(append_, file_exists) ==
    (~append_) \/ (append_ /\ ~file_exists)

OnFailureBlankRow(file) ==
    [file EXCEPT !.lines = Append(@, RowLine([k \in FieldSet |-> PyNone]))]

\* lines 188-190: nothing is written for a document that failed
OnFailure(file) == file

BatchInit ==
    /\ out_tsv = [exists |-> FALSE, lines |-> <<>>]
    /\ append = FALSE
    /\ n = 0
    /\ log = <<>>
    /\ bpc = "main"
    /\ outcomes = <<>>
    /\ run_start = 0
    /\ runs = 0

BatchIdle ==
    /\ out_tsv = [exists |-> FALSE, lines |-> <<>>]
    /\ append = FALSE
    /\ n = 0
    /\ log = <<>>
    /\ bpc = "idle"
    /\ outcomes = <<>>
    /\ run_start = 0
    /\ runs = 0

\* lines 164-180: open the file, write the header if needed, n = 0
Open(append_) ==
    /\ bpc = "main"
    /\ runs < MaxRuns
    /\ runs' = runs + 1
    /\ append' = append_
    /\ LET file_exists == out_tsv.exists
           opened == IF append_ THEN out_tsv.lines ELSE <<>>
           lines == IF HeaderNeeded(append_, file_exists)
                    THEN Append(opened, HeaderLine)
                    ELSE opened
       IN /\ out_tsv' = [exists |-> TRUE, lines |-> lines]
          /\ run_start' = Len(lines)
    /\ n' = 0
    /\ log' = <<>>
    /\ outcomes' = <<>>
    /\ bpc' = "loop"
    /\ UNCHANGED <<dvars, lvars, cvars, ivars>>

\* lines 181-190: the next document of xml_paths
Document(doc) ==
    /\ bpc = "loop"
    /\ Len(outcomes) < MaxDocs
    /\ LET xml_file == Path(Len(outcomes) + 1)
           ecg == extract_xml(xml_file, doc)
       IN /\ outcomes' = Append(outcomes, [path |-> xml_file, ok |-> ecg.ok])
          /\ IF ecg.ok
             THEN /\ out_tsv' = [out_tsv EXCEPT !.lines =
                         Append(@, RowLine(clean_row_for_tsv(ecg.ECG)))]
                  /\ n' = n + 1
                  /\ UNCHANGED log
             ELSE /\ out_tsv' = OnFailure(out_tsv)
                  /\ log' = Append(log, xml_file)
                  /\ UNCHANGED n
    /\ UNCHANGED <<append, bpc, run_start, runs>>
    /\ UNCHANGED <<dvars, lvars, cvars, ivars>>

\* line 192: xml_paths is exhausted
Done ==
    /\ bpc = "loop"
    /\ bpc' = "done"
    /\ UNCHANGED <<out_tsv, append, n, log, outcomes, run_start, runs>>
    /\ UNCHANGED <<dvars, lvars, cvars, ivars>>

\* main() is run again on the same output path
Again ==
    /\ bpc = "done"
    /\ runs < MaxRuns
    /\ bpc' = "main"
    /\ UNCHANGED <<out_tsv, append, n, log, outcomes, run_start, runs>>
    /\ UNCHANGED <<dvars, lvars, cvars, ivars>>

BatchNext ==
    \/ \E append_ \in BOOLEAN : Open(append_)
    \/ \E doc \in Docs : Document(doc)
    \/ Done
    \/ Again

(***************************************************************************)
(* iter_xml_files.  What an input path names is a file, a directory with   *)
(* its tree below, or nothing.  A yielded path is the sequence of names    *)
(* from the input down.                                                    *)
(***************************************************************************)
File(name) == [kind |-> "file", name |-> name, children |-> {}]
Dir(name, children) == [kind |-> "dir", name |-> name, children |-> children]
Missing(name) == [kind |-> "none", name |-> name, children |-> {}]

DotXml == <<".", "x", "m", "l">>

\* PurePath.suffix: from the last dot of the name, unless that dot is the
\* first or the last character
suffix(name) ==
    LET dots == {i \in 1..Len(name) : name[i] = "."} IN
    IF dots = {} THEN <<>>
    ELSE LET j == CHOOSE i \in dots : \A k \in dots : k <= i IN
         IF 1 < j /\ j < Len(name) THEN SubSeq(name, j, Len(name)) ELSE <<>>

\* the name matches the pattern "*.xml"; pathlib folds case under the
\* Windows flavour only
fnmatch_xml(name, flavour) ==
    LET cased == IF flavour = "nt" THEN lower(name) ELSE name IN
    /\ Len(cased) >= 4
    /\ SubSeq(cased, Len(cased) - 3, Len(cased)) = DotXml

\* everything below a directory, files and directories alike
RECURSIVE Below(_, _)
Below(dir, prefix) ==
    UNION { {[path |-> prefix \o <<c.name>>, kind |-> c.kind, name |-> c.name]}
            \cup (IF c.kind = "dir"
                  THEN Below(c, prefix \o <<c.name>>)
                  ELSE {})
            : c \in dir.children }

\* line 141: path.rglob("*.xml")
rglob_xml(dir, flavour) ==
    {d.path : d \in {e \in Below(dir, <<dir.name>>) :
                        fnmatch_xml(e.name, flavour)}}

\* lines 137-141, for one input
iter_one(p, flavour) ==
    IF p.kind = "file" /\ lower(suffix(p.name)) = DotXml
    THEN {<<p.name>>}
    ELSE IF p.kind = "dir"
    THEN rglob_xml(p, flavour)
    ELSE {}

FileNames ==
    { <<"a", ".", "x", "m", "l">>,
      <<"a", ".", "X", "M", "L">>,
      <<"b", ".", "t", "x", "t">>,
      <<".", "x", "m", "l">> }

DirNames == { <<"s", "u", "b">>, <<"d", ".", "x", "m", "l">> }

FileSets ==
    {{File(f) : f \in names} :
        names \in {ns \in SUBSET FileNames : Cardinality(ns) <= MaxEntries}}

InputPaths ==
    {File(f) : f \in FileNames}
    \cup {Missing(f) : f \in FileNames}
    \cup {Dir(d, fs) : d \in DirNames, fs \in FileSets}
    \cup {Dir(<<"i", "n">>, fs \cup {Dir(d, sub)}) :
             d \in DirNames, fs \in FileSets, sub \in FileSets}

IterInit ==
    /\ platform \in {"posix", "nt"}
    /\ path = Missing(<<>>)
    /\ yielded = {}
    /\ ninputs = 0
    /\ ipc = "loop"

IterIdle ==
    /\ platform = "posix"
    /\ path = Missing(<<>>)
    /\ yielded = {}
    /\ ninputs = 0
    /\ ipc = "idle"

\* lines 136-141: the next input path
NextInput(p) ==
    /\ ipc = "loop"
    /\ ninputs < MaxInputs
    /\ ninputs' = ninputs + 1
    /\ path' = p
    /\ yielded' = iter_one(p, platform)
    /\ UNCHANGED <<platform, ipc>>
    /\ UNCHANGED <<dvars, lvars, cvars, bvars>>

\* inputs is exhausted
IterDone ==
    /\ ipc = "loop"
    /\ ipc' = "done"
    /\ UNCHANGED <<platform, path, yielded, ninputs>>
    /\ UNCHANGED <<dvars, lvars, cvars, bvars>>

IterNext ==
    \/ \E p \in InputPaths : NextInput(p)
    \/ IterDone

(***************************************************************************)
(* Specifications.                                                         *)
(***************************************************************************)
InitDecode ==
    DecodeInit /\ LeadsIdle /\ CleanIdle /\ BatchIdle /\ IterIdle
SpecDecode == InitDecode /\ [][DecodeNext]_vars

InitLeads ==
    LeadsInit /\ DecodeIdle /\ CleanIdle /\ BatchIdle /\ IterIdle
SpecLeads == InitLeads /\ [][LeadsNext]_vars

InitClean ==
    CleanInit /\ DecodeIdle /\ LeadsIdle /\ BatchIdle /\ IterIdle
SpecClean == InitClean /\ [][CleanNext]_vars

InitBatch ==
    BatchInit /\ DecodeIdle /\ LeadsIdle /\ CleanIdle /\ IterIdle
SpecBatch == InitBatch /\ [][BatchNext]_vars

InitIter ==
    IterInit /\ DecodeIdle /\ LeadsIdle /\ CleanIdle /\ BatchIdle
SpecIter == InitIter /\ [][IterNext]_vars

(***************************************************************************)
(* Base64 as RFC 4648 defines it: groups of four alphabet characters, the  *)
(* last group padded with one or two "=".  Payload is the byte sequence    *)
(* such a text encodes.                                                    *)
(***************************************************************************)
ValidBase64(s) ==
    /\ Len(s) % 4 = 0
    /\ \A i \in 1..Len(s) : s[i] \in B64Chars \cup {"="}
    /\ \A i \in 1..Len(s) : s[i] = "=" => i >= Len(s) - 1
    /\ Len(s) > 0 /\ s[Len(s) - 1] = "=" => s[Len(s)] = "="

PadCount(s) == Cardinality({i \in 1..Len(s) : s[i] = "="})

SixBits(c) == IF c = "=" THEN 0 ELSE table_a2b_base64(c)

QuadBytes(s, j) ==
    LET w == ((SixBits(s[4 * j - 3]) * 64 + SixBits(s[4 * j - 2])) * 64
              + SixBits(s[4 * j - 1])) * 64 + SixBits(s[4 * j])
    IN << w \div 65536, (w \div 256) % 256, w % 256 >>

Payload(s) ==
    [i \in 1..(3 * (Len(s) \div 4) - PadCount(s)) |->
        QuadBytes(s, (i + 2) \div 3)[((i - 1) % 3) + 1]]

LE16(lo, hi) == IF hi >= 128 THEN lo + 256 * hi - 65536 ELSE lo + 256 * hi

\* C1: for valid base64 text with payload b and any scale, decode_waveform
\* returns a series of floor(len(b)/2) samples, sample k being the signed
\* 16-bit little-endian integer of bytes b[2k], b[2k+1] times scale; a
\* trailing odd byte is ignored.
C1_DecodeValid ==
    (dpc # "call" /\ ValidBase64(b64_data)) =>
        LET b == Payload(b64_data) IN
        /\ dpc = "returned"
        /\ decoded.kind = "ndarray"
        /\ Len(decoded.v) = Len(b) \div 2
        /\ \A k \in 1..Len(decoded.v) :
              decoded.v[k] = LE16(b[2 * k - 1], b[2 * k]) * scale

\* bytes 01 00 FF FF with scale 2.0 decode to [2.0, -2.0]
C1_Witness ==
    /\ dpc = "returned"
    /\ b64_data = ExampleText
    /\ Payload(b64_data) = <<1, 0, 255, 255>>
    /\ scale = Float(2)
    /\ decoded = NdArray(<<Float(2), Float(-2)>>)

\* a payload of odd length: the trailing byte is dropped
C1_WitnessOdd ==
    /\ dpc = "returned"
    /\ ValidBase64(b64_data)
    /\ Len(Payload(b64_data)) = 5
    /\ decoded.kind = "ndarray" /\ Len(decoded.v) = 2

\* C2: for text that is not valid base64, decode_waveform yields the
\* decode-failure marker and never a numeric series.
C2_InvalidYieldsError ==
    (dpc # "call" /\ ~ValidBase64(b64_data)) =>
        (dpc = "returned" /\ decoded.kind = "str")

(***************************************************************************)
(* Properties of get_lead_data.                                            *)
(***************************************************************************)
Finished == lpc \in {"returned", "raised"}

\* C3: when leads I and II are both populated with series of equal length
\* m, the returned dict has III = II - I, aVR = -(I + II)/2,
\* aVL = I - II/2, aVF = II - I/2 elementwise, each of length m.
C3_Derivation ==
    (/\ Finished
     /\ raised_at \in {"none", "derive"}
     /\ {"I", "II"} \subseteq stored
     /\ leads["I"].kind = "ndarray" /\ leads["II"].kind = "ndarray"
     /\ Len(leads["I"].v) = Len(leads["II"].v))
    =>
    LET I == leads["I"].v
        II == leads["II"].v
        m == Len(I)
    IN /\ lpc = "returned"
       /\ \A d \in {"III", "aVR", "aVL", "aVF"} :
             leads[d].kind = "ndarray" /\ Len(leads[d].v) = m
       /\ \A k \in 1..m :
             /\ leads["III"].v[k] = II[k] - I[k]
             /\ 2 * leads["aVR"].v[k] = 0 - (I[k] + II[k])
             /\ 2 * leads["aVL"].v[k] = 2 * I[k] - II[k]
             /\ 2 * leads["aVF"].v[k] = 2 * II[k] - I[k]

\* I = [1.0, -1.0], II = [-2.0, 2.0] give III = [-3.0, 3.0]
C3_Witness ==
    /\ lpc = "returned"
    /\ {"I", "II"} \subseteq stored
    /\ leads["I"] = NdArray(<<Float(1), Float(-1)>>)
    /\ leads["II"] = NdArray(<<Float(-2), Float(2)>>)
    /\ leads["III"] = NdArray(<<Float(-3), Float(3)>>)

\* C4: a decode failure is contained to its lead: get_lead_data returns,
\* the failing lead's entry is an empty series and every other recorded
\* lead holds its decoded series.
C4_DecodeFailureContained ==
    (Finished /\ raised_at \in {"none", "derive"} /\ failed # {}) =>
        /\ lpc = "returned"
        /\ \A k \in failed : leads[k] = EmptyArray
        /\ \A k \in stored \ failed : leads[k].kind = "ndarray"

\* C5: with lead I or lead II never populated and the other a series of
\* any length, the derivation does not raise.
C5_DeriveNeverRaises ==
    (/\ Finished
     /\ raised_at \in {"none", "derive"}
     /\ ~({"I", "II"} \subseteq stored)
     /\ failed = {})
    => lpc = "returned"

C7_NodeNeverFatal ==
    ~(/\ lpc = "raised"
      /\ raised_at \in {"LeadID", "WaveFormData", "LeadAmplitudeUnitsPerBit"})

\* C8: only Waveform sections whose type is "rhythm" in any letter case
\* contribute, and a document whose sections are all of another type
\* yields twelve empty leads.
C8_RhythmOnly ==
    /\ lpc = "leaddata" => IsRhythmCI(type_text)
    /\ (Finished /\ raised_at # "parse" /\ other_only) =>
          /\ lpc = "returned"
          /\ \A k \in LeadNames : leads[k] = EmptyArray

C8_Witness ==
    /\ lpc = "returned"
    /\ other_only
    /\ nwaveform = 2
    /\ Str(waveform_type) = "median"
    /\ \A k \in LeadNames : leads[k] = EmptyArray

\* a "Rhythm" section is accepted
C8_WitnessAccepted ==
    /\ lpc = "leaddata"
    /\ Str(type_text) = "RHYTHM"

(***************************************************************************)
(* Properties of write_metadata_batch and clean_row_for_tsv.               *)
(***************************************************************************)
\* the lines this run wrote after opening the file
RunRows == SubSeq(out_tsv.lines, run_start + 1, Len(out_tsv.lines))

OkPaths == SelectSeq(outcomes, LAMBDA o : o.ok)

\* C9: every document is attempted; each document whose extraction
\* succeeds adds exactly one row, in input order; each failing document adds
\* no row and one log line; n is the number of successful documents.
C9_BatchNeverAborts ==
    bpc \in {"loop", "done"} =>
        /\ Len(RunRows) = Len(OkPaths)
        /\ \A i \in 1..Len(RunRows) :
              /\ RunRows[i].kind = "row"
              /\ Len(RunRows[i].fields) = Len(FIELDNAMES)
              /\ RunRows[i].fields[1] = PyStr(OkPaths[i].path)
        /\ n = Len(OkPaths)
        /\ log = [i \in 1..(Len(outcomes) - Len(OkPaths)) |->
                    SelectSeq(outcomes, LAMBDA o : ~o.ok)[i].path]

\* a failing document followed by a good one: one row, one logged failure
C9_Witness ==
    /\ bpc = "done"
    /\ Len(outcomes) = 2
    /\ ~outcomes[1].ok /\ outcomes[2].ok
    /\ n = 1
    /\ Len(RunRows) = 1
    /\ log = <<Path(1)>>

\* one physical line break of a string: CR LF, a lone CR or a lone LF
RECURSIVE Escaped(_)
Escaped(s) ==
    IF s = <<>> THEN <<>>
    ELSE IF Len(s) >= 2 /\ s[1] = CR /\ s[2] = LF
    THEN <<"\\", "n">> \o Escaped(SubSeq(s, 3, Len(s)))
    ELSE IF s[1] \in {CR, LF}
    THEN <<"\\", "n">> \o Escaped(Tail(s))
    ELSE <<s[1]>> \o Escaped(Tail(s))

\* C10: clean_row_for_tsv returns exactly the FIELDNAMES keys; a string
\* value has every CR LF pair, lone CR and lone LF replaced by one
\* backslash-n escape and holds no CR or LF; other values are unchanged.
C10_CleanRow ==
    cpc = "returned" =>
        /\ DOMAIN cleaned = FieldSet
        /\ \A k \in FieldSet :
              LET v == IF k \in DOMAIN row_dict THEN row_dict[k] ELSE PyNone
              IN IF v.t = "str"
                 THEN /\ cleaned[k].t = "str"
                      /\ cleaned[k].v = Escaped(v.v)
                      /\ \A i \in 1..Len(cleaned[k].v) :
                            cleaned[k].v[i] \notin {CR, LF}
                 ELSE cleaned[k] = v

\* "a" CR LF "a" becomes "a" backslash n "a": one escape for the pair
C10_Witness ==
    /\ cpc = "returned"
    /\ row_dict["diagnosis_statement"] = PyStr(<<"a", CR, LF, "a">>)
    /\ cleaned["diagnosis_statement"] = PyStr(<<"a", "\\", "n", "a">>)
    /\ "patient_age" \in DOMAIN row_dict
    /\ cleaned["patient_age"] = PyInt(63)

\* the positions of the header lines of the output file
HeaderLines(file) ==
    {i \in 1..Len(file.lines) : file.lines[i].kind = "header"}

\* C12: over any sequence of runs that starts without the output file, the
\* file holds exactly one header line, as its first line; a run writes the
\* header if and only if it overwrites or the file did not exist before
\* the run, and before any row of that run.
C12_OneHeader ==
    [][/\ bpc' \in {"loop", "done"} => HeaderLines(out_tsv') = {1}
       /\ (bpc = "main" /\ bpc' = "loop") =>
             LET kept == IF append' THEN out_tsv.lines ELSE <<>>
                 wrote == out_tsv'.lines = Append(kept, HeaderLine)
             IN /\ wrote <=> (~append' \/ ~out_tsv.exists)
                /\ ~wrote => out_tsv'.lines = kept
                /\ run_start' = Len(out_tsv'.lines)
       /\ (bpc = "loop" /\ bpc' = "loop") =>
             /\ Len(out_tsv'.lines) >= Len(out_tsv.lines)
             /\ SubSeq(out_tsv'.lines, 1, Len(out_tsv.lines)) = out_tsv.lines
             /\ \A i \in (Len(out_tsv.lines) + 1)..Len(out_tsv'.lines) :
                   out_tsv'.lines[i].kind = "row"]_vars

\* a second run appended a row to the file of the first: still one header
C12_Witness ==
    /\ bpc = "done"
    /\ runs = 2
    /\ append
    /\ run_start = 2
    /\ n = 1
    /\ Len(out_tsv.lines) = 3
    /\ HeaderLines(out_tsv) = {1}

(***************************************************************************)
(* Properties of iter_xml_files.                                           *)
(***************************************************************************)
\* the suffix of the name is ".xml" in some letter case
SuffixIsXmlCI(name) ==
    /\ Len(name) >= 5
    /\ name[Len(name) - 3] = "."
    /\ name[Len(name) - 2] \in {"x", "X"}
    /\ name[Len(name) - 1] \in {"m", "M"}
    /\ name[Len(name)] \in {"l", "L"}

XmlFilesBelow(dir) ==
    {d.path : d \in {e \in Below(dir, <<dir.name>>) :
                        e.kind = "file" /\ SuffixIsXmlCI(e.name)}}

\* C11: a directory yields all files below it whose suffix is ".xml" in
\* any letter case; a file is yielded if and only if its suffix is ".xml"
\* in any letter case; a path that is neither yields nothing.
C11_IterXmlFiles ==
    ninputs > 0 =>
        CASE path.kind = "dir" -> XmlFilesBelow(path) \subseteq yielded
          [] path.kind = "file" ->
               yielded = IF SuffixIsXmlCI(path.name)
                         THEN {<<path.name>>} ELSE {}
          [] OTHER -> yielded = {}

====
